---- MODULE Spec2Model ----
(***************************************************************************)
(* Model of the streaming response pipeline of the Cody CLI coding agent:  *)
(*   - CodeExtractor (utils/config.ts): the incremental code-block         *)
(*     extractor, driven by the stream loop of sendMessage;                *)
(*   - CodingAgent (core/agent.ts): the conversation store with            *)
(*     send / sendStream / abort / clearHistory / updateSystemPrompt;      *)
(*   - APIClient.chatStream (core/agent.ts): the decoder of the streamed   *)
(*     response body, fragment by fragment.                                *)
(* Text is a sequence of characters (one string each), so slicing, indexOf, *)
(* the opening regular expression and trim are computed as the code does.  *)
(***************************************************************************)
EXTENDS Integers, Sequences, FiniteSets, TLC

VARIABLES
    \* ---- sendMessage / CodeExtractor (utils/config.ts) ----
    text,           \* the complete response text the endpoint will deliver
    plan,           \* chunk boundaries fixed by the endpoint ({} = any chunking)
    pos,            \* number of characters of text delivered so far
    phase,          \* position of sendMessage: "stream", "done" (flush has
                    \* returned), "failed", "applied", "settled"
    buffer,         \* CodeExtractor.buffer
    inBlock,        \* CodeExtractor.inBlock
    filename,       \* CodeExtractor.filename
    code,           \* CodeExtractor.code
    pendingFiles,   \* the module-level pendingFiles list
    display,        \* everything written to process.stdout by the stream loop
    flushEmitted,   \* the instructions added by the turn's flush call
    applied,        \* what processPending did with each file it was handed
    autoAcceptAll,  \* the module-level autoAcceptAll flag
    \* ---- CodingAgent (core/agent.ts) ----
    conversationHistory,  \* CodingAgent.conversationHistory
    pendingUserMessage,   \* CodingAgent.pendingUserMessage (0 = null, else id)
    call,                 \* the call in progress: its kind and local variables
    turn,                 \* number of send/sendStream calls started so far
    last,                 \* what the last finished call did (observer record)
    \* ---- APIClient.chatStream (core/agent.ts) ----
    raw,            \* the complete body the endpoint will deliver
    status,         \* response.status
    rpos,           \* number of characters of raw that reader.read has returned
    chatBuffer,     \* the local variable buffer of chatStream
    yielded,        \* the values chatStream has yielded, in order
    cstate,         \* position of chatStream: "fetch", "read", "returned", "threw"
    error,          \* the error chatStream threw
    overdue,        \* the configured timeout has passed since the request began
    \* ---- runCommand (core/tools.ts) ----
    proc,           \* the child process: "none" (not spawned yet), "running",
                    \* "closed" ('close' was emitted), "threw" (spawn threw)
    stdout,         \* the local variable stdout
    stderr,         \* the local variable stderr
    timer,          \* the 30 s timer: "unset", "pending", "fired"
    settled,        \* the promise runCommand returned: pending, or its ToolResult
    events,         \* the events handled so far, in the order they occurred
    kills,          \* number of proc.kill() calls
    \* ---- the prompt loop of main (utils/config.ts) ----
    armed,            \* the question of prompt() is waiting for a line
    task,             \* where the callback of that question stands
    outstanding,      \* remote exchanges started and not yet settled
    lastUserMessage,  \* the module-level lastUserMessage
    isFirstMessage,   \* the module-level isFirstMessage
    requests,         \* the messages handed to the agent so far, in order
    consumed,         \* number of lines read from the terminal
    dropped,          \* lines that arrived while no question was waiting
    outcome,          \* how the last sendMessage ended: "none" (none has
                      \* ended yet), "threw", "returned"
    carried           \* what pendingFiles held when the turn's sendMessage began

extVars == <<text, plan, pos, phase, buffer, inBlock, filename, code,
             pendingFiles, display, flushEmitted, applied, autoAcceptAll>>
agentVars == <<conversationHistory, pendingUserMessage, call, turn, last>>
decVars == <<raw, status, rpos, chatBuffer, yielded, cstate, error, overdue>>
toolVars == <<proc, stdout, stderr, timer, settled, events, kills>>
sessVars == <<armed, task, outstanding, lastUserMessage, isFirstMessage,
              requests, consumed, dropped, outcome, carried>>
vars == <<extVars, agentVars, decVars, toolVars, sessVars>>

----------------------------------------------------------------------------
(* Characters and JavaScript string primitives                             *)

\* the backtick cannot be written inside a TLA+ string: it is a token of its own
BT == "BACKTICK"
NL == "\n"

\* \w of a JavaScript regular expression: [A-Za-z0-9_]
WordChar ==
    {"a","b","c","d","e","f","g","h","i","j","k","l","m","n","o","p","q","r",
     "s","t","u","v","w","x","y","z","A","B","C","D","E","F","G","H","I","J",
     "K","L","M","N","O","P","Q","R","S","T","U","V","W","X","Y","Z","0","1",
     "2","3","4","5","6","7","8","9","_"}

\* the white space String.prototype.trim removes (the part the model can write)
WhiteSpace == {" ", "\t", "\n", "\r"}

\* s.slice(from) with a 0-based, non-negative from
SliceFrom(s, from) == SubSeq(s, from + 1, Len(s))

\* s.slice(0, to) with a 0-based, non-negative to
SliceTo(s, to) == SubSeq(s, 1, to)

\* s.slice(-n): the last n characters (all of s when it is shorter)
SliceLast(s, n) == IF Len(s) <= n THEN s ELSE SubSeq(s, Len(s) - n + 1, Len(s))

\* s.slice(0, -n): all but the last n characters
SliceButLast(s, n) == IF Len(s) <= n THEN <<>> ELSE SubSeq(s, 1, Len(s) - n)

\* s.indexOf(sub): 0-based index of the first occurrence, -1 when there is none
IndexOf(s, sub) ==
    LET hits == {i \in 1..(Len(s) - Len(sub) + 1) :
                    \A k \in 1..Len(sub) : s[i + k - 1] = sub[k]}
    IN  IF hits = {} THEN -1
        ELSE (CHOOSE i \in hits : \A j \in hits : i <= j) - 1

\* s.trim()
Trim(s) ==
    LET keep == {i \in 1..Len(s) : s[i] \notin WhiteSpace}
    IN  IF keep = {} THEN <<>>
        ELSE SubSeq(s, CHOOSE i \in keep : \A j \in keep : i <= j,
                       CHOOSE i \in keep : \A j \in keep : j <= i)

Fence == <<BT, BT, BT>>
FenceLen == 3
ScanKeep == 100
BlockKeep == 10

----------------------------------------------------------------------------
(* CodeExtractor (utils/config.ts)                                         *)

FenceAt(b, i) ==
    /\ i >= 1
    /\ i + 2 <= Len(b)
    /\ b[i] = BT /\ b[i + 1] = BT /\ b[i + 2] = BT

\* (a tag class that is too wide: everything up to the next colon or newline)
TagRunToColon(b, i) ==
    CHOOSE j \in i..(Len(b) + 1) :
        /\ (j = Len(b) + 1 \/ b[j] \in {":", NL})
        /\ \A k \in i..(j - 1) : b[k] \notin {":", NL}

\* end of the greedy \w+ that starts at i: the first index that is past the
\* buffer or holds no word character
WordRunEnd(b, i) ==
    CHOOSE j \in i..(Len(b) + 1) :
        /\ (j = Len(b) + 1 \/ b[j] \notin WordChar)
        /\ \A k \in i..(j - 1) : b[k] \in WordChar

\* end of the greedy [^\n]+ that starts at i: the first index that is past the
\* buffer or holds a newline
LineEnd(b, i) ==
    CHOOSE j \in i..(Len(b) + 1) :
        /\ (j = Len(b) + 1 \/ b[j] = NL)
        /\ \A k \in i..(j - 1) : b[k] # NL

\* /```(\w+):([^\n]+)\n/ matches with its first backtick at index i (1-based).
\* Neither greedy run can give a character back: the character that has to
\* follow it (":" resp. "\n") is none the run itself accepts.
MatchAt(b, i) ==
    /\ FenceAt(b, i)
    /\ LET c == WordRunEnd(b, i + FenceLen)
       IN  /\ c > i + FenceLen
           /\ c <= Len(b)
           /\ b[c] = ":"
           /\ LET n == LineEnd(b, c + 1)
              IN  n > c + 1 /\ n <= Len(b)

NoMatch == [found |-> FALSE, whole |-> <<>>, path |-> <<>>]

\* this.buffer.match(/```(\w+):([^\n]+)\n/): the leftmost match, m[0] and m[2]
Match(b) ==
    LET starts == {i \in 1..Len(b) : MatchAt(b, i)}
    IN  IF starts = {} THEN NoMatch
        ELSE LET i == CHOOSE x \in starts : \A y \in starts : x <= y
                 c == WordRunEnd(b, i + FenceLen)
                 n == LineEnd(b, c + 1)
             IN  [found |-> TRUE,
                  whole |-> SubSeq(b, i, n),
                  path  |-> SubSeq(b, c + 1, n - 1)]

\* (the carry of the InBlock branch used while Scanning)
ScanTailShort(b) == IF Len(b) > BlockKeep THEN SliceLast(b, BlockKeep) ELSE b

\* (a Scanning branch that keeps the whole buffer)
ScanTailAll(b) == b

\* Scanning without a match: the buffer keeps its last 100 characters
ScanTail(b) == IF Len(b) > ScanKeep THEN SliceLast(b, ScanKeep) ELSE b

\* process while Scanning (the !this.inBlock branch)
ProcessScanning(e, pf, b) ==
    LET m == Match(b)
    IN  IF m.found
        THEN [ext |-> [buffer   |-> SliceFrom(b, IndexOf(b, m.whole) + Len(m.whole)),
                       inBlock  |-> TRUE,
                       filename |-> Trim(m.path),
                       code     |-> <<>>],
              pendingFiles |-> pf]
        ELSE [ext |-> [e EXCEPT !.buffer = ScanTail(b)],
              pendingFiles |-> pf]

\* the record pushed to pendingFiles (fullPath, which path.join derives from
\* filename and the fixed directory, is not modelled)
PendingFile(name, content) == [filename |-> name, content |-> Trim(content)]

\* s.lastIndexOf(sub): 0-based index of the last occurrence, -1 when none
LastIndexOf(s, sub) ==
    LET hits == {i \in 1..(Len(s) - Len(sub) + 1) :
                    \A k \in 1..Len(sub) : s[i + k - 1] = sub[k]}
    IN  IF hits = {} THEN -1
        ELSE (CHOOSE i \in hits : \A j \in hits : j <= i) - 1

\* (an InBlock branch that closes the block at the last fence of the buffer)
ProcessInBlockLastFence(e, pf, b) ==
    LET end == LastIndexOf(b, Fence)
    IN  IF end # -1
        THEN [ext |-> [buffer   |-> SliceFrom(b, end + FenceLen),
                       inBlock  |-> FALSE,
                       filename |-> e.filename,
                       code     |-> e.code \o SliceTo(b, end)],
              pendingFiles |->
                  Append(pf, PendingFile(e.filename, e.code \o SliceTo(b, end)))]
        ELSE IF Len(b) > BlockKeep
        THEN [ext |-> [e EXCEPT !.code = e.code \o SliceButLast(b, BlockKeep),
                                !.buffer = SliceLast(b, BlockKeep)],
              pendingFiles |-> pf]
        ELSE [ext |-> [e EXCEPT !.buffer = b], pendingFiles |-> pf]

\* (an InBlock branch that moves the whole buffer to the code when it holds
\* no fence, keeping no tail)
ProcessInBlockNoCarry(e, pf, b) ==
    LET end == IndexOf(b, Fence)
    IN  IF end # -1
        THEN [ext |-> [buffer   |-> SliceFrom(b, end + FenceLen),
                       inBlock  |-> FALSE,
                       filename |-> e.filename,
                       code     |-> e.code \o SliceTo(b, end)],
              pendingFiles |->
                  Append(pf, PendingFile(e.filename, e.code \o SliceTo(b, end)))]
        ELSE [ext |-> [e EXCEPT !.code = e.code \o b, !.buffer = <<>>],
              pendingFiles |-> pf]

\* (an InBlock branch that appends the whole buffer to the code and still
\* keeps the tail)
ProcessInBlockCopyTail(e, pf, b) ==
    LET end == IndexOf(b, Fence)
    IN  IF end # -1
        THEN [ext |-> [buffer   |-> SliceFrom(b, end + FenceLen),
                       inBlock  |-> FALSE,
                       filename |-> e.filename,
                       code     |-> e.code \o SliceTo(b, end)],
              pendingFiles |->
                  Append(pf, PendingFile(e.filename, e.code \o SliceTo(b, end)))]
        ELSE IF Len(b) > BlockKeep
        THEN [ext |-> [e EXCEPT !.code = e.code \o b,
                                !.buffer = SliceLast(b, BlockKeep)],
              pendingFiles |-> pf]
        ELSE [ext |-> [e EXCEPT !.buffer = b], pendingFiles |-> pf]

\* process while InBlock
ProcessInBlock(e, pf, b) ==
    LET end == IndexOf(b, Fence)
    IN  IF end # -1
        THEN [ext |-> [buffer   |-> SliceFrom(b, end + FenceLen),
                       inBlock  |-> FALSE,
                       filename |-> e.filename,
                       code     |-> e.code \o SliceTo(b, end)],
              pendingFiles |->
                  Append(pf, PendingFile(e.filename, e.code \o SliceTo(b, end)))]
        ELSE IF Len(b) > BlockKeep
        THEN [ext |-> [e EXCEPT !.code = e.code \o SliceButLast(b, BlockKeep),
                                !.buffer = SliceLast(b, BlockKeep)],
              pendingFiles |-> pf]
        ELSE [ext |-> [e EXCEPT !.buffer = b], pendingFiles |-> pf]

\* CodeExtractor.process(chunk)
process(e, pf, chunk) ==
    LET b == e.buffer \o chunk
    IN  IF ~e.inBlock THEN ProcessScanning(e, pf, b) ELSE ProcessInBlock(e, pf, b)

NewExtractor == [buffer |-> <<>>, inBlock |-> FALSE, filename |-> <<>>, code |-> <<>>]

\* (a flush that looks at this.code only, not at this.inBlock)
FlushEmitsAnyCode(e) ==
    IF e.code # <<>>
    THEN <<PendingFile(e.filename, e.code \o e.buffer)>>
    ELSE <<>>

\* what flush pushes: a block is emitted only when this.code is non-empty
FlushEmits(e) ==
    IF e.inBlock /\ e.code # <<>>
    THEN <<PendingFile(e.filename, e.code \o e.buffer)>>
    ELSE <<>>

\* CodeExtractor.flush()
flush(e, pf) == [ext |-> NewExtractor, pendingFiles |-> pf \o FlushEmits(e)]

\* the extractor of the turn as a record
Ext == [buffer |-> buffer, inBlock |-> inBlock, filename |-> filename, code |-> code]


----------------------------------------------------------------------------
(* The responses the endpoint may deliver                                  *)

\* most fenced blocks in one generated response
MaxBlocks == 2

Paths == <<"a", "b", "c", "d">>

Filler(n) == [i \in 1..n |-> "a"]

\* the opening header of the i-th block; every second path is written with a
\* blank before it
Hdr(i) ==
    Fence \o <<"p", "y", ":">> \o (IF i % 2 = 0 THEN <<" ">> ELSE <<>>)
          \o <<Paths[i]>> \o <<NL>>

Short == <<"x", NL>>
Long == <<" ", "i", "f", "(", "a", ")", "{", BT, BT, "}", ";", "z", NL>>
Contents == {Short, Long}

ClosedTails == {Fence, Fence \o <<NL, "k">>}
PreChat == <<"h", "i", NL>>

ClosedBlock(i) == {Hdr(i) \o c \o t : c \in Contents, t \in ClosedTails}
OpenBlock(i) == {Hdr(i) \o c : c \in Contents}

RECURSIVE ClosedSeq(_, _)
\* blocks i..k, each closed
ClosedSeq(i, k) ==
    IF i > k THEN {<<>>}
    ELSE {x \o y : x \in ClosedBlock(i), y \in ClosedSeq(i + 1, k)}

Generated ==
    UNION {
        {PreChat \o body :
            body \in ClosedSeq(1, k) \cup
                     (IF k = 0 THEN {}
                      ELSE {x \o y : x \in ClosedSeq(1, k - 1), y \in OpenBlock(k)})}
        : k \in 0..MaxBlocks}

\* "Sure, here:\n```python:app.py\nprint(1)\n```\nDone."
ScenarioText ==
    <<"S", "u", "r", "e", ",", " ", "h", "e", "r", "e", ":", NL>>
    \o Fence \o <<"p", "y", "t", "h", "o", "n", ":", "a", "p", "p", ".", "p", "y", NL>>
    \o <<"p", "r", "i", "n", "t", "(", "1", ")", NL>>
    \o Fence \o <<NL, "D", "o", "n", "e", ".">>

\* its three chunks end after "```py", after "print(1)\n" and at the end
ScenarioPlan == {17, 38, 47}

\* chat text longer than the scanning buffer keeps, then a block
LongChatText == Filler(ScanKeep + 1) \o Hdr(1) \o Short \o Fence

\* a header of n characters in all: "```p:", a path, the newline
HeaderOfLen(n) == Fence \o <<"p", ":">> \o Filler(n - 6) \o <<NL>>

\* headers as long as the scanning buffer can still rejoin, and one longer
FitHeaderText == <<"h", "i", NL>> \o HeaderOfLen(ScanKeep + 1) \o Short \o Fence
LongHeaderText == <<"h", "i", NL>> \o HeaderOfLen(ScanKeep + 2) \o Short \o Fence

\* a block whose language tag is not made of word characters
PlusTagText == Fence \o <<"c", "+", "+", ":", "a", NL>> \o Short \o Fence

\* a response that is one block and nothing else
BareBlockText == Hdr(1) \o Long \o Fence

\* chat only, with backticks and a colon but no header:
\* "see ```py a:b\nthat is all```"
ChatOnlyText ==
    <<"s", "e", "e", " ", BT, BT, BT, "p", "y", " ", "a", ":", "b", NL,
      "t", "h", "a", "t", " ", "i", "s", " ", "a", "l", "l">> \o Fence

\* chat only: a header that never gets its newline, "```py:a.py is the file to edit"
CutHeaderText ==
    Fence \o <<"p", "y", ":", "a", ".", "p", "y", " ", "i", "s", " ", "t", "h", "e",
               " ", "f", "i", "l", "e", " ", "t", "o", " ", "e", "d", "i", "t">>

\* the one-block response in three chunks: the header, the content with the
\* first two backticks of the closing fence, the last backtick
SplitFencePlan == {8, 23, 24}

\* a block whose content holds a fenced snippet of its own:
\* "```py:a\na\n```js\nb\n```"
NestedFenceText ==
    Hdr(1) \o <<"a", NL>> \o Fence \o <<"j", "s", NL, "b", NL>> \o Fence

Responses ==
    {[text |-> t, plan |-> {}] :
        t \in Generated \cup {ScenarioText, LongChatText, FitHeaderText,
                              LongHeaderText, PlusTagText, BareBlockText,
                              ChatOnlyText, CutHeaderText, NestedFenceText, <<>>}}
    \cup {[text |-> ScenarioText, plan |-> ScenarioPlan],
          [text |-> BareBlockText, plan |-> SplitFencePlan]}

----------------------------------------------------------------------------
(* CodingAgent state (core/agent.ts), shared by both specifications        *)

SYSTEM_PROMPT == "SYS"

SystemMessage == [role |-> "system", content |-> SYSTEM_PROMPT, id |-> 0]

NoCall == [kind |-> "idle"]
NoLast == [op |-> "none"]

AgentInit ==
    /\ conversationHistory = <<SystemMessage>>
    /\ pendingUserMessage = 0
    /\ call = NoCall
    /\ turn = 0
    /\ last = NoLast

NoError == [name |-> "none"]

\* no request is under way: chatStream stands still while the other parts
\* are exercised
DecoderIdle ==
    /\ raw = <<>>
    /\ status = 200
    /\ rpos = 0
    /\ chatBuffer = <<>>
    /\ yielded = <<>>
    /\ cstate = "returned"
    /\ error = NoError
    /\ overdue = FALSE

\* the promise of runCommand before any resolve call
NoResult == [state |-> "pending"]

\* no command is run
ToolIdle ==
    /\ proc = "closed"
    /\ stdout = <<>>
    /\ stderr = <<>>
    /\ timer = "unset"
    /\ settled = NoResult
    /\ events = <<>>
    /\ kills = 0

NoTask == [at |-> "idle"]

\* no terminal is attached: the prompt loop stands still
SessionIdle ==
    /\ armed = FALSE
    /\ task = NoTask
    /\ outstanding = 0
    /\ lastUserMessage = ""
    /\ isFirstMessage = TRUE
    /\ requests = <<>>
    /\ consumed = 0
    /\ dropped = 0
    /\ outcome = "none"
    /\ carried = <<>>

----------------------------------------------------------------------------
(* sendMessage (utils/config.ts): the stream loop around the extractor     *)

ExtractorInit ==
    /\ \E r \in Responses : text = r.text /\ plan = r.plan
    /\ pos = 0
    /\ phase = "stream"
    /\ buffer = <<>>
    /\ inBlock = FALSE
    /\ filename = <<>>
    /\ code = <<>>
    /\ pendingFiles = <<>>
    /\ display = <<>>
    /\ flushEmitted = <<>>
    /\ applied = <<>>
    /\ autoAcceptAll = FALSE

\* where the next chunk may end
NextCuts ==
    IF plan = {} THEN (pos + 1)..Len(text)
    ELSE LET ahead == {q \in plan : q > pos}
         IN  {q \in ahead : \A r \in ahead : q <= r}

SetExtractor(r) ==
    /\ buffer' = r.ext.buffer
    /\ inBlock' = r.ext.inBlock
    /\ filename' = r.ext.filename
    /\ code' = r.ext.code
    /\ pendingFiles' = r.pendingFiles

\* (a sink that shows the latest chunk only)
WriteLatest(shown, chunk) == chunk

\* process.stdout.write(chunk): the terminal shows the chunk after all before
Write(shown, chunk) == shown \o chunk

\* one iteration of the for-await loop: write the chunk, feed the extractor
StreamChunk ==
    /\ phase = "stream"
    /\ \E q \in NextCuts :
          LET chunk == SubSeq(text, pos + 1, q)
          IN  /\ display' = Write(display, chunk)
              /\ SetExtractor(process(Ext, pendingFiles, chunk))
              /\ pos' = q
    /\ UNCHANGED <<text, plan, phase, flushEmitted, applied, autoAcceptAll>>

\* the stream completed: ext.flush() after the loop
StreamEnd ==
    /\ phase = "stream"
    /\ pos = Len(text)
    /\ SetExtractor(flush(Ext, pendingFiles))
    /\ flushEmitted' = FlushEmits(Ext)
    /\ phase' = "done"
    /\ UNCHANGED <<text, plan, pos, display, applied, autoAcceptAll>>

\* the stream threw: ext.flush() in the catch clause, then rethrow
StreamFail ==
    /\ phase = "stream"
    /\ SetExtractor(flush(Ext, pendingFiles))
    /\ flushEmitted' = FlushEmits(Ext)
    /\ phase' = "failed"
    /\ UNCHANGED <<text, plan, pos, display, applied, autoAcceptAll>>

\* the answers askSave resolves with
Choices == {"y", "n", "a", "p"}

RECURSIVE PendingLoop(_, _, _, _, _)
\* the for loop of processPending from the k-th file on, the user answering
\* choice[k] when asked: what is done with each file, and autoAcceptAll after
PendingLoop(pf, k, all, auto, choice) ==
    IF k > Len(pf) THEN [applied |-> <<>>, auto |-> auto]
    ELSE IF auto \/ all
    THEN LET r == PendingLoop(pf, k + 1, all, auto, choice)
         IN  [r EXCEPT !.applied = <<[file |-> pf[k], did |-> "save"]>> \o @]
    ELSE LET r == PendingLoop(pf, k + 1, all \/ choice[k] = "a",
                              auto \/ choice[k] = "p", choice)
         IN  [r EXCEPT !.applied =
                 <<[file |-> pf[k],
                    did |-> IF choice[k] = "n" THEN "skip" ELSE "save"]>> \o @]

\* (a workflow that may also start from inside the stream loop)
DrainedOrStreaming == phase \in {"stream", "done"}

\* control of sendMessage has passed the loop and the ext.flush() after it
Drained == phase = "done"

\* if (ext.hasPending()) await processPending(rl): every file is presented,
\* then the list is emptied
processPending ==
    /\ Drained
    /\ pendingFiles # <<>>
    /\ \E choice \in [1..Len(pendingFiles) -> Choices] :
          LET r == PendingLoop(pendingFiles, 1, FALSE, autoAcceptAll, choice)
          IN  /\ applied' = r.applied
              /\ autoAcceptAll' = r.auto
    /\ pendingFiles' = <<>>
    /\ phase' = "applied"
    /\ UNCHANGED <<text, plan, pos, buffer, inBlock, filename, code, display,
                   flushEmitted>>

\* ext.hasPending() is false: sendMessage returns
NothingPending ==
    /\ phase = "done"
    /\ pendingFiles = <<>>
    /\ phase' = "settled"
    /\ UNCHANGED <<text, plan, pos, buffer, inBlock, filename, code, pendingFiles,
                   display, flushEmitted, applied, autoAcceptAll>>

\* agent.send("[Updated]...") has settled, its error swallowed: sendMessage
\* returns (what send does to the Conversation is in AgentSpec)
FollowUp ==
    /\ phase = "applied"
    /\ phase' = "settled"
    /\ UNCHANGED <<text, plan, pos, buffer, inBlock, filename, code, pendingFiles,
                   display, flushEmitted, applied, autoAcceptAll>>

ExtractorNext ==
    \/ StreamChunk /\ UNCHANGED <<agentVars, decVars, toolVars, sessVars>>
    \/ StreamEnd /\ UNCHANGED <<agentVars, decVars, toolVars, sessVars>>
    \/ StreamFail /\ UNCHANGED <<agentVars, decVars, toolVars, sessVars>>
    \/ processPending /\ UNCHANGED <<agentVars, decVars, toolVars, sessVars>>
    \/ NothingPending /\ UNCHANGED <<agentVars, decVars, toolVars, sessVars>>
    \/ FollowUp /\ UNCHANGED <<agentVars, decVars, toolVars, sessVars>>

ExtractorStart ==
    ExtractorInit /\ AgentInit /\ DecoderIdle /\ ToolIdle /\ SessionIdle

ExtractorSpec == ExtractorStart /\ [][ExtractorNext]_vars


----------------------------------------------------------------------------
(* What the claims say of a response, read off the complete text           *)

TicksAt(t, i) ==
    /\ i >= 1
    /\ i + 2 <= Len(t)
    /\ \A k \in i..(i + 2) : t[k] = BT

\* i..n is an opening header with its colon at c: three backticks, a tag of
\* word characters, a colon, a path without newline, a newline
HeaderSpan(t, i, c, n) ==
    /\ TicksAt(t, i)
    /\ i + 3 < c /\ c + 1 < n /\ n <= Len(t)
    /\ t[c] = ":" /\ t[n] = NL
    /\ \A k \in (i + 3)..(c - 1) : t[k] \in WordChar
    /\ \A k \in (c + 1)..(n - 1) : t[k] # NL

\* the same with the tag the specification describes: any non-blank characters
SpecHeaderSpan(t, i, c, n) ==
    /\ TicksAt(t, i)
    /\ i + 3 < c /\ c + 1 < n /\ n <= Len(t)
    /\ t[c] = ":" /\ t[n] = NL
    /\ \A k \in (i + 3)..(c - 1) : t[k] \notin WhiteSpace
    /\ \A k \in (c + 1)..(n - 1) : t[k] # NL

HasSpecHeader(t) ==
    \E i \in 1..Len(t) : TicksAt(t, i) /\
        \E c \in (i + 4)..Len(t) : t[c] = ":" /\
            \E n \in (c + 2)..Len(t) : t[n] = NL /\ SpecHeaderSpan(t, i, c, n)

NoHeader == [found |-> FALSE, i |-> 0, c |-> 0, n |-> 0]

\* the first header of t that starts at or after from. A header that starts
\* at i can only have its colon at the first character after the backticks
\* that is no word character, and its newline at the first newline after it.
HeaderFrom(t, from) ==
    LET colon(i) == CHOOSE j \in (i + 3)..(Len(t) + 1) :
                        /\ (j = Len(t) + 1 \/ t[j] \notin WordChar)
                        /\ \A k \in (i + 3)..(j - 1) : t[k] \in WordChar
        newline(c) == CHOOSE j \in (c + 1)..(Len(t) + 1) :
                        /\ (j = Len(t) + 1 \/ t[j] = NL)
                        /\ \A k \in (c + 1)..(j - 1) : t[k] # NL
        starts == {i \in from..Len(t) :
                      /\ TicksAt(t, i)
                      /\ colon(i) <= Len(t)
                      /\ HeaderSpan(t, i, colon(i), newline(colon(i)))}
    IN  IF starts = {} THEN NoHeader
        ELSE LET i == CHOOSE x \in starts : \A y \in starts : x <= y
             IN  [found |-> TRUE, i |-> i, c |-> colon(i), n |-> newline(colon(i))]

\* the first closing fence at or after from, 0 when there is none
FenceFrom(t, from) ==
    LET hits == {i \in from..Len(t) : TicksAt(t, i)}
    IN  IF hits = {} THEN 0 ELSE CHOOSE x \in hits : \A y \in hits : x <= y

RECURSIVE Blocks(_, _)
\* the blocks of t from index from on: the complete ones in order, and the
\* block left open at the end of the text, if any
Blocks(t, from) ==
    LET h == HeaderFrom(t, from)
    IN  IF ~h.found
        THEN [closed |-> <<>>, open |-> FALSE, path |-> <<>>, rest |-> <<>>]
        ELSE LET f == FenceFrom(t, h.n + 1)
                 path == Trim(SubSeq(t, h.c + 1, h.n - 1))
             IN  IF f = 0
                 THEN [closed |-> <<>>, open |-> TRUE, path |-> path,
                       rest |-> SubSeq(t, h.n + 1, Len(t))]
                 ELSE LET more == Blocks(t, f + 3)
                      IN  [more EXCEPT !.closed =
                              <<[filename |-> path,
                                 content |-> Trim(SubSeq(t, h.n + 1, f - 1))]>>
                              \o more.closed]

TextBlocks == Blocks(text, 1)
FirstHeader == HeaderFrom(text, 1)

\* what the extractor emits when the whole text arrives as one chunk
OneChunk(t) == flush(process(NewExtractor, <<>>, t).ext,
                     process(NewExtractor, <<>>, t).pendingFiles).pendingFiles

----------------------------------------------------------------------------
(* Claims C1..C5: the extractor under arbitrary chunking                   *)

\* C1: however the response is split into chunks, process on each chunk and
\* then flush leave the same list of instructions as the single-chunk split.
C1_ChunkInvariance ==
    phase = "done" => pendingFiles = OneChunk(text)

\* C2: a response of k >= 1 complete blocks yields, under any chunking,
\* exactly k instructions, in the order of the headers, each with its header's
\* path and the trimmed text between the header's newline and its closing fence.
C2_CompleteBlocksEmitted ==
    (phase = "done" /\ ~TextBlocks.open /\ Len(TextBlocks.closed) >= 1)
        => pendingFiles = TextBlocks.closed

\* C3: when the stream ends while a block is open, flush emits exactly one
\* instruction, whose content is all the text after that header's newline,
\* trimmed, however short that text is.
C3_OpenBlockFlushed ==
    (phase = "done" /\ TextBlocks.open /\ Trim(TextBlocks.rest) # <<>>)
        => flushEmitted = <<[filename |-> TextBlocks.path,
                             content |-> Trim(TextBlocks.rest)]>>

AppPy == [filename |-> <<"a", "p", "p", ".", "p", "y">>,
          content |-> <<"p", "r", "i", "n", "t", "(", "1", ")">>]

\* the step that ends the three-chunk scenario leaves the one instruction
\* app.py / print(1)
ScenarioResult ==
    (text = ScenarioText /\ plan = ScenarioPlan /\ phase' = "done")
        => pendingFiles' = <<AppPy>>

\* the step that processes the chunk carrying the newline of the header h,
\* that header having begun in an earlier chunk
SplitHeaderStep(h) ==
    /\ h.found
    /\ h.i <= pos
    /\ pos < h.n
    /\ pos' >= h.n

HeaderCaptured(h) ==
    /\ inBlock'
    /\ filename' = Trim(SubSeq(text, h.c + 1, h.n - 1))

C5_NoHeaderPassThrough ==
    ~HasSpecHeader(text)
        => /\ pendingFiles = <<>>
           /\ display = SubSeq(text, 1, pos)

\* C5 witness: the response with the cut-off header has been streamed to its
\* end and flushed
C5_Witness ==
    /\ text = CutHeaderText
    /\ ~HasSpecHeader(text)
    /\ phase = "done"
    /\ display = text


----------------------------------------------------------------------------
(* CodingAgent (core/agent.ts)                                             *)
(* A message carries an id standing for the identity of its object, which  *)
(* is what indexOf compares. Calls do not overlap: one send or sendStream  *)
(* is in progress at a time. While sendStream is suspended at its yield    *)
(* the consumer runs, and may call clearHistory or updateSystemPrompt.     *)

\* most send/sendStream calls in one run, and most deltas in one stream
MaxTurns == 2
MaxDeltas == 3

UserTexts == {"u"}
Deltas == {"a", "b"}          \* chatStream yields non-empty content only
Replies == {"", "r"}          \* chat returns content || ""
Additions == {"X"}

UserMessage(u, n) == [role |-> "user", content |-> u, id |-> n]
AssistantMessage(r, n) == [role |-> "assistant", content |-> r, id |-> n]

\* the extractor side stands still while the agent alone is exercised
ExtractorIdle ==
    /\ text = <<>>
    /\ plan = {}
    /\ pos = 0
    /\ phase = "done"
    /\ buffer = <<>>
    /\ inBlock = FALSE
    /\ filename = <<>>
    /\ code = <<>>
    /\ pendingFiles = <<>>
    /\ display = <<>>
    /\ flushEmitted = <<>>
    /\ applied = <<>>
    /\ autoAcceptAll = FALSE

\* (a catch clause that forgets the rollback)
PopNothing(h) == h

\* this.conversationHistory.pop()
Pop(h) == SubSeq(h, 1, Len(h) - 1)

\* this.conversationHistory.indexOf(userMsg), 1-based, 0 when absent
IndexOfMessage(h, m) ==
    LET at == {k \in 1..Len(h) : h[k] = m}
    IN  IF at = {} THEN 0 ELSE CHOOSE k \in at : \A j \in at : k <= j

\* this.conversationHistory.splice(idx, 1)
Splice(h, k) == SubSeq(h, 1, k - 1) \o SubSeq(h, k + 1, Len(h))

\* (a finally block that commits whatever text was streamed)
FinallyCommitPartial(h, userMsg, success, fullResponse) ==
    IF fullResponse # ""
    THEN Append(h, AssistantMessage(fullResponse, userMsg.id))
    ELSE IF ~success /\ IndexOfMessage(h, userMsg) # 0
    THEN Splice(h, IndexOfMessage(h, userMsg))
    ELSE h

\* the finally block of sendStream: the history it leaves
StreamFinally(h, userMsg, success, fullResponse) ==
    IF success /\ fullResponse # ""
    THEN Append(h, AssistantMessage(fullResponse, userMsg.id))
    ELSE IF ~success
    THEN (IF IndexOfMessage(h, userMsg) # 0
          THEN Splice(h, IndexOfMessage(h, userMsg))
          ELSE h)
    ELSE h

\* (an accumulator that keeps the latest chunk only)
AccumulateLatest(fullResponse, chunk) == chunk

\* fullResponse += chunk
Accumulate(fullResponse, chunk) == fullResponse \o chunk

\* (a reset that leaves the list empty)
EmptyHistory == <<>>

\* the list clearHistory installs
ClearedHistory == <<SystemMessage>>

\* what a finished call leaves for the observer
Finished(op, result, raised, c) ==
    [op |-> op, result |-> result, raised |-> raised, before |-> c.before,
     userMsg |-> c.userMsg, deltas |-> c.deltas, touched |-> c.touched]

\* send: the user message is pushed, then client.chat is awaited
SendStart ==
    /\ call.kind = "idle"
    /\ turn < MaxTurns
    /\ \E u \in UserTexts :
          LET userMsg == UserMessage(u, turn + 1)
          IN  /\ conversationHistory' = Append(conversationHistory, userMsg)
              /\ call' = [kind |-> "send", at |-> "await", userMsg |-> userMsg,
                          fullResponse |-> "", deltas |-> <<>>,
                          before |-> conversationHistory, touched |-> FALSE,
                          aborted |-> FALSE]
    /\ turn' = turn + 1
    /\ last' = NoLast
    /\ UNCHANGED pendingUserMessage

\* send: client.chat resolved, the assistant message is pushed
SendOk ==
    /\ call.kind = "send"
    /\ \E r \in Replies :
          conversationHistory' =
              Append(conversationHistory, AssistantMessage(r, call.userMsg.id))
    /\ last' = Finished("send", "ok", FALSE, call)
    /\ call' = NoCall
    /\ UNCHANGED <<pendingUserMessage, turn>>

\* send: client.chat rejected; the catch clause pops and rethrows
SendFail ==
    /\ call.kind = "send"
    /\ conversationHistory' = Pop(conversationHistory)
    /\ last' = Finished("send", "failed", TRUE, call)
    /\ call' = NoCall
    /\ UNCHANGED <<pendingUserMessage, turn>>

\* sendStream up to its first await of client.chatStream
StreamStart ==
    /\ call.kind = "idle"
    /\ turn < MaxTurns
    /\ \E u \in UserTexts :
          LET userMsg == UserMessage(u, turn + 1)
          IN  /\ pendingUserMessage' = userMsg.id
              /\ conversationHistory' = Append(conversationHistory, userMsg)
              /\ call' = [kind |-> "stream", at |-> "await", userMsg |-> userMsg,
                          fullResponse |-> "", deltas |-> <<>>,
                          before |-> conversationHistory, touched |-> FALSE,
                          aborted |-> FALSE]
    /\ turn' = turn + 1
    /\ last' = NoLast

\* chatStream yields a chunk: it is accumulated and yielded to the consumer
StreamDelta ==
    /\ call.kind = "stream" /\ call.at = "await"
    /\ Len(call.deltas) < MaxDeltas
    /\ \E d \in Deltas :
          call' = [call EXCEPT !.fullResponse = Accumulate(@, d),
                               !.deltas = Append(@, d),
                               !.at = "yield"]
    /\ last' = NoLast
    /\ UNCHANGED <<conversationHistory, pendingUserMessage, turn>>

\* the consumer asks for the next chunk
StreamResume ==
    /\ call.kind = "stream" /\ call.at = "yield"
    /\ call' = [call EXCEPT !.at = "await"]
    /\ last' = NoLast
    /\ UNCHANGED <<conversationHistory, pendingUserMessage, turn>>

\* chatStream is exhausted: success = true, then the finally block
StreamComplete ==
    /\ call.kind = "stream" /\ call.at = "await"
    /\ conversationHistory' =
          StreamFinally(conversationHistory, call.userMsg, TRUE, call.fullResponse)
    /\ pendingUserMessage' = 0
    /\ last' = Finished("sendStream",
                        IF call.fullResponse # "" THEN "ok" ELSE "empty", FALSE, call)
    /\ call' = NoCall
    /\ UNCHANGED turn

\* chatStream throws (fetch, status, read): the finally block runs with
\* success false and the error goes on to the caller
StreamError ==
    /\ call.kind = "stream" /\ call.at = "await"
    /\ conversationHistory' =
          StreamFinally(conversationHistory, call.userMsg, FALSE, call.fullResponse)
    /\ pendingUserMessage' = 0
    /\ last' = Finished("sendStream", "failed", TRUE, call)
    /\ call' = NoCall
    /\ UNCHANGED turn

\* the consumer closes the generator at a yield (return()): the finally block
\* runs with success false, no error is raised
StreamCancel ==
    /\ call.kind = "stream" /\ call.at = "yield"
    /\ conversationHistory' =
          StreamFinally(conversationHistory, call.userMsg, FALSE, call.fullResponse)
    /\ pendingUserMessage' = 0
    /\ last' = Finished("sendStream", "cancelled", FALSE, call)
    /\ call' = NoCall
    /\ UNCHANGED turn

\* the caller is free to call the synchronous methods: between calls, and
\* while sendStream is suspended at its yield
CallerRuns == call.kind = "idle" \/ (call.kind = "stream" /\ call.at = "yield")

Touch == IF call.kind = "idle" THEN call ELSE [call EXCEPT !.touched = TRUE]

clearHistory ==
    /\ CallerRuns
    /\ conversationHistory' = ClearedHistory
    /\ pendingUserMessage' = 0
    /\ call' = Touch
    /\ last' = [op |-> "clearHistory"]
    /\ UNCHANGED turn

updateSystemPrompt ==
    /\ CallerRuns
    /\ \E a \in Additions :
          conversationHistory' =
              IF Len(conversationHistory) >= 1 /\ conversationHistory[1].role = "system"
              THEN [conversationHistory EXCEPT
                        ![1].content = SYSTEM_PROMPT \o "\n\n" \o a]
              ELSE conversationHistory
    /\ call' = Touch
    /\ last' = [op |-> "updateSystemPrompt"]
    /\ UNCHANGED <<pendingUserMessage, turn>>

\* abort() while a sendStream call is in progress (from its consumer, or
\* from any other handler while the call awaits the network). APIClient has
\* no method abort, so this.client.abort() throws a TypeError at the caller
\* of abort and reaches neither the request nor the generator.
abort ==
    /\ call.kind = "stream"
    /\ ~call.aborted
    /\ call' = [call EXCEPT !.aborted = TRUE]
    /\ last' = [op |-> "abort", result |-> "TypeError"]
    /\ UNCHANGED <<conversationHistory, pendingUserMessage, turn>>

AgentNext ==
    \/ SendStart /\ UNCHANGED <<extVars, decVars, toolVars, sessVars>>
    \/ SendOk /\ UNCHANGED <<extVars, decVars, toolVars, sessVars>>
    \/ SendFail /\ UNCHANGED <<extVars, decVars, toolVars, sessVars>>
    \/ StreamStart /\ UNCHANGED <<extVars, decVars, toolVars, sessVars>>
    \/ StreamDelta /\ UNCHANGED <<extVars, decVars, toolVars, sessVars>>
    \/ StreamResume /\ UNCHANGED <<extVars, decVars, toolVars, sessVars>>
    \/ StreamComplete /\ UNCHANGED <<extVars, decVars, toolVars, sessVars>>
    \/ StreamError /\ UNCHANGED <<extVars, decVars, toolVars, sessVars>>
    \/ StreamCancel /\ UNCHANGED <<extVars, decVars, toolVars, sessVars>>
    \/ clearHistory /\ UNCHANGED <<extVars, decVars, toolVars, sessVars>>
    \/ updateSystemPrompt /\ UNCHANGED <<extVars, decVars, toolVars, sessVars>>

AgentStart ==
    AgentInit /\ ExtractorIdle /\ DecoderIdle /\ ToolIdle /\ SessionIdle

AgentSpec == AgentStart /\ [][AgentNext]_vars

\* the agent with a caller that also calls abort()
AgentAbortNext ==
    \/ AgentNext
    \/ abort /\ UNCHANGED <<extVars, decVars, toolVars, sessVars>>

AgentAbortSpec == AgentStart /\ [][AgentAbortNext]_vars


----------------------------------------------------------------------------
(* Claims C6..C10: the Conversation across turns                           *)

\* a send or sendStream call has just ended with this result, and the caller
\* called nothing else on the agent while it ran
JustEnded(op, result) ==
    /\ last.op = op
    /\ last.result = result
    /\ ~last.touched

RECURSIVE Concat(_)
\* the strings of a sequence joined in order
Concat(ds) == IF ds = <<>> THEN "" ELSE Head(ds) \o Concat(Tail(ds))

\* C6: a failed exchange leaves the Conversation as it was before the turn:
\* when send or sendStream ends with an error, before the first delta or after
\* any number of them, the message list equals, element for element, the list
\* before the user message was appended, and the error reaches the caller.
C6_FailedExchangeRollsBack ==
    (JustEnded("send", "failed") \/ JustEnded("sendStream", "failed"))
        => /\ conversationHistory = last.before
           /\ last.raised

\* C6 witness: a stream has failed after deltas were yielded, in a second turn
\* that followed a committed one
C6_Witness ==
    /\ JustEnded("sendStream", "failed")
    /\ Len(last.deltas) >= 1
    /\ Len(last.before) = 3
    /\ call.kind = "idle"

\* C7: cancellation mid-stream after k >= 1 deltas (the consumer closes the
\* generator, or the request breaks off) commits no assistant message and
\* leaves the Conversation with the length and content it had before the turn.
C7_CancelCommitsNothing ==
    ((JustEnded("sendStream", "cancelled") \/ JustEnded("sendStream", "failed"))
        /\ Len(last.deltas) >= 1)
        => /\ conversationHistory = last.before
           /\ \A k \in 1..Len(conversationHistory) :
                  conversationHistory[k].id # last.userMsg.id

\* C7 witness: the generator was closed after three deltas
C7_Witness ==
    /\ JustEnded("sendStream", "cancelled")
    /\ Len(last.deltas) = 3
    /\ call.kind = "idle"

\* C8: a streaming turn that completes cleanly after at least one delta
\* appends exactly one assistant message directly after the turn's user
\* message, its content the deltas joined in the order they were yielded, and
\* changes nothing else.
C8_CleanCompletionCommits ==
    (JustEnded("sendStream", "ok") /\ Len(last.deltas) >= 1)
        => /\ Len(conversationHistory) = Len(last.before) + 2
           /\ SubSeq(conversationHistory, 1, Len(last.before)) = last.before
           /\ conversationHistory[Len(last.before) + 1] = last.userMsg
           /\ conversationHistory[Len(last.before) + 2].role = "assistant"
           /\ conversationHistory[Len(last.before) + 2].content = Concat(last.deltas)

\* C8 witness: a stream completed after the deltas "a", "b"
C8_Witness ==
    /\ JustEnded("sendStream", "ok")
    /\ last.deltas = <<"a", "b">>
    /\ call.kind = "idle"

\* the user messages that no assistant message follows
OpenUsers ==
    {k \in 1..Len(conversationHistory) :
        /\ conversationHistory[k].role = "user"
        /\ (k = Len(conversationHistory)
            \/ conversationHistory[k + 1].role # "assistant")}

\* C9: between turns, after any mix of successful, empty, failed and cancelled
\* send and sendStream calls, at most one user message of the Conversation is
\* not followed by an assistant message.
C9_AtMostOneOpenUser ==
    call.kind = "idle" => Cardinality(OpenUsers) <= 1

\* C10: in every reachable state the Conversation is non-empty, its first
\* element has role system and no other element has.
C10_SystemFirst ==
    /\ Len(conversationHistory) >= 1
    /\ conversationHistory[1].role = "system"
    /\ \A k \in 2..Len(conversationHistory) : conversationHistory[k].role # "system"

\* C10 witness: the first send of a cleared Conversation failed and its pop
\* took the user message, leaving the system message alone
C10_Witness ==
    /\ JustEnded("send", "failed")
    /\ turn = MaxTurns
    /\ Len(conversationHistory) = 1
    /\ conversationHistory[1].role = "system"


----------------------------------------------------------------------------
(* APIClient.chatStream (core/agent.ts): the decoder of the response body  *)
(* The body is a sequence of characters that reader.read hands over in     *)
(* fragments cut anywhere. One step covers chatStream from one await to    *)
(* the next, the consumer taking each yielded value as it comes.           *)

QUOTE == "\""

\* "data: "
DataPrefix == <<"d", "a", "t", "a", ":", " ">>

\* "[DONE]"
Sentinel == <<"[", "D", "O", "N", "E", "]">>

\* {"choices":[{"delta":{"content":"
ContentOpen ==
    <<"{", QUOTE, "c", "h", "o", "i", "c", "e", "s", QUOTE, ":", "[", "{",
      QUOTE, "d", "e", "l", "t", "a", QUOTE, ":", "{",
      QUOTE, "c", "o", "n", "t", "e", "n", "t", QUOTE, ":", QUOTE>>

\* "}}]}
ContentClose == <<QUOTE, "}", "}", "]", "}">>

\* {"choices":[{"delta":{}}]}
NoContentJSON ==
    <<"{", QUOTE, "c", "h", "o", "i", "c", "e", "s", QUOTE, ":", "[", "{",
      QUOTE, "d", "e", "l", "t", "a", QUOTE, ":", "{", "}", "}", "]", "}">>

\* {"choices":[]}
NoChoiceJSON ==
    <<"{", QUOTE, "c", "h", "o", "i", "c", "e", "s", QUOTE, ":", "[", "]", "}">>

\* JSON texts of the endpoint that parse and hold no content
Contentless == {NoContentJSON, NoChoiceJSON, <<"{", "}">>}

\* the characters a JSON string holds unescaped
PlainChar(ch) == ch \notin {QUOTE, "\\", NL, "\r", "\t"}

\* line.startsWith(p)
StartsWith(line, p) == Len(line) >= Len(p) /\ SubSeq(line, 1, Len(p)) = p

EndsWith(line, p) ==
    Len(line) >= Len(p) /\ SubSeq(line, Len(line) - Len(p) + 1, Len(line)) = p

\* JSON.parse(data) and parsed.choices?.[0]?.delta?.content, for the payloads
\* the endpoint of this model sends: a content record gives its string, the
\* JSON texts without content give none (undefined and "" are both falsy),
\* and the remaining payloads, none of which is JSON, make JSON.parse throw
ParseContent(data) ==
    IF /\ Len(data) >= Len(ContentOpen) + Len(ContentClose)
       /\ StartsWith(data, ContentOpen)
       /\ EndsWith(data, ContentClose)
       /\ \A k \in (Len(ContentOpen) + 1)..(Len(data) - Len(ContentClose)) :
             PlainChar(data[k])
    THEN [threw |-> FALSE,
          content |-> SubSeq(data, Len(ContentOpen) + 1,
                             Len(data) - Len(ContentClose))]
    ELSE IF data \in Contentless
    THEN [threw |-> FALSE, content |-> <<>>]
    ELSE [threw |-> TRUE, content |-> <<>>]

RECURSIVE Split(_)
\* s.split("\n")
Split(s) ==
    LET i == IndexOf(s, <<NL>>)
    IN  IF i = -1 THEN <<s>>
        ELSE <<SliceTo(s, i)>> \o Split(SliceFrom(s, i + 1))

RECURSIVE LineLoopPastSentinel(_, _)
\* (a line loop that skips the sentinel and goes on)
LineLoopPastSentinel(lines, k) ==
    IF k > Len(lines) THEN [yields |-> <<>>, done |-> FALSE]
    ELSE IF ~StartsWith(lines[k], DataPrefix) THEN LineLoopPastSentinel(lines, k + 1)
    ELSE LET data == SliceFrom(lines[k], 6)
             p == ParseContent(data)
             r == LineLoopPastSentinel(lines, k + 1)
         IN  IF data # Sentinel /\ ~p.threw /\ p.content # <<>>
             THEN [r EXCEPT !.yields = <<p.content>> \o @]
             ELSE r

RECURSIVE LineLoopStopAtBad(_, _)
\* (a line loop that a payload JSON.parse rejects brings to an end)
LineLoopStopAtBad(lines, k) ==
    IF k > Len(lines) THEN [yields |-> <<>>, done |-> FALSE]
    ELSE IF ~StartsWith(lines[k], DataPrefix) THEN LineLoopStopAtBad(lines, k + 1)
    ELSE LET data == SliceFrom(lines[k], 6)
         IN  IF data = Sentinel \/ ParseContent(data).threw
             THEN [yields |-> <<>>, done |-> TRUE]
             ELSE LET p == ParseContent(data)
                      r == LineLoopStopAtBad(lines, k + 1)
                  IN  IF p.content # <<>>
                      THEN [r EXCEPT !.yields = <<p.content>> \o @]
                      ELSE r

RECURSIVE LineLoop(_, _)
\* for (const line of lines) from the k-th line on: the contents it yields,
\* in order, and whether it returned at the sentinel
LineLoop(lines, k) ==
    IF k > Len(lines) THEN [yields |-> <<>>, done |-> FALSE]
    ELSE IF ~StartsWith(lines[k], DataPrefix) THEN LineLoop(lines, k + 1)
    ELSE LET data == SliceFrom(lines[k], 6)
         IN  IF data = Sentinel
             THEN [yields |-> <<>>, done |-> TRUE]
             ELSE LET p == ParseContent(data)
                      r == LineLoop(lines, k + 1)
                  IN  IF ~p.threw /\ p.content # <<>>
                      THEN [r EXCEPT !.yields = <<p.content>> \o @]
                      ELSE r

\* (a read that keeps no unfinished line for the next fragment)
ReadStepNoCarry(buf, value) ==
    LET lines == Split(value)
        r == LineLoop(SubSeq(lines, 1, Len(lines) - 1), 1)
    IN  [buffer |-> <<>>, yields |-> r.yields, done |-> r.done]

\* the body of the while loop for one fragment: buffer += value, split,
\* buffer = lines.pop() || "", then the line loop
ReadStep(buf, value) ==
    LET lines == Split(buf \o value)
        r == LineLoop(SubSeq(lines, 1, Len(lines) - 1), 1)
    IN  [buffer |-> lines[Len(lines)], yields |-> r.yields, done |-> r.done]

\* (a status test that lets every response through)
OkAlways(s) == TRUE

\* response.ok
Ok(s) == 200 <= s /\ s <= 299

\* most lines in one generated body
MaxLines == 2

DataLine(content) == DataPrefix \o ContentOpen \o content \o ContentClose

LineA == DataLine(<<"a">>)
LineB == DataLine(<<"b">>)
EmptyContentLine == DataLine(<<>>)
NoContentLine == DataPrefix \o NoContentJSON
\* "data: {" is a data line whose payload is no JSON text
BadLine == DataPrefix \o <<"{">>
DoneLine == DataPrefix \o Sentinel
\* ": k" is a comment line of the event stream
CommentLine == <<":", " ", "k">>
\* "data:[DONE]" lacks the blank of the prefix
NoBlankDoneLine == <<"d", "a", "t", "a", ":">> \o Sentinel

Lines == {LineA, BadLine, DoneLine, CommentLine}

RECURSIVE LineSeqs(_)
\* the bodies of exactly n lines, each ended by its newline
LineSeqs(n) ==
    IF n = 0 THEN {<<>>}
    ELSE {l \o <<NL>> \o rest : l \in Lines, rest \in LineSeqs(n - 1)}

\* a first frame without content, a blank line, a delta, the sentinel, a delta
TypicalBody ==
    NoContentLine \o <<NL, NL>> \o LineA \o <<NL>> \o DoneLine \o <<NL>>
        \o LineB \o <<NL>>

Bodies ==
    UNION {LineSeqs(n) : n \in 0..MaxLines}
    \cup {TypicalBody,
          \* two deltas, and two with a comment between them
          LineA \o <<NL>> \o LineB \o <<NL>>,
          LineB \o <<NL>> \o CommentLine \o <<NL>> \o LineA \o <<NL>>,
          \* the last line lacks its newline
          LineA \o <<NL>> \o LineB,
          LineA \o <<NL>> \o DoneLine,
          \* content that is present and empty; a sentinel without the blank
          EmptyContentLine \o <<NL>> \o LineA \o <<NL>>,
          NoBlankDoneLine \o <<NL>> \o LineA \o <<NL>>,
          \* a valid line after a bad one and one without content
          BadLine \o <<NL>> \o NoContentLine \o <<NL>> \o LineB \o <<NL>>}

\* 0 stands for a request that gets no response: fetch rejects
NoResponse == 0
Statuses == {NoResponse, 200, 404, 500}

APIError(s, body) == [name |-> "API Error", status |-> s, body |-> body]

DecoderInit ==
    /\ raw \in Bodies
    /\ status \in Statuses
    /\ rpos = 0
    /\ chatBuffer = <<>>
    /\ yielded = <<>>
    /\ cstate = "fetch"
    /\ error = NoError
    /\ overdue = FALSE

\* chatStream is suspended at an await: of fetch, or of reader.read
Waiting == cstate \in {"fetch", "read"}

\* fetch rejects: the error goes to the caller
FetchFails ==
    /\ cstate = "fetch"
    /\ status = NoResponse
    /\ cstate' = "threw"
    /\ error' = [name |-> "fetch failed"]
    /\ UNCHANGED <<raw, status, rpos, chatBuffer, yielded, overdue>>

\* fetch resolves with a status that is not ok: the body is read as text and
\* thrown with the status
FetchNotOk ==
    /\ cstate = "fetch"
    /\ status # NoResponse
    /\ ~Ok(status)
    /\ cstate' = "threw"
    /\ error' = APIError(status, raw)
    /\ UNCHANGED <<raw, status, rpos, chatBuffer, yielded, overdue>>

\* fetch resolves ok and the response has no body to read
FetchNoBody ==
    /\ cstate = "fetch"
    /\ status # NoResponse
    /\ Ok(status)
    /\ raw = <<>>
    /\ cstate' = "threw"
    /\ error' = [name |-> "No response body"]
    /\ UNCHANGED <<raw, status, rpos, chatBuffer, yielded, overdue>>

\* fetch resolves ok: the reader is taken and the first read awaited
FetchOk ==
    /\ cstate = "fetch"
    /\ status # NoResponse
    /\ Ok(status)
    /\ cstate' = "read"
    /\ UNCHANGED <<raw, status, rpos, chatBuffer, yielded, error, overdue>>

\* reader.read resolves with a fragment: its complete lines are decoded and
\* their contents yielded, up to the sentinel
Read ==
    /\ cstate = "read"
    /\ \E q \in (rpos + 1)..Len(raw) :
          LET r == ReadStep(chatBuffer, SubSeq(raw, rpos + 1, q))
          IN  /\ chatBuffer' = r.buffer
              /\ yielded' = yielded \o r.yields
              /\ cstate' = IF r.done THEN "returned" ELSE "read"
              /\ rpos' = q
    /\ UNCHANGED <<raw, status, error, overdue>>

\* reader.read resolves with done: break, the generator ends
ReadDone ==
    /\ cstate = "read"
    /\ rpos = Len(raw)
    /\ cstate' = "returned"
    /\ UNCHANGED <<raw, status, rpos, chatBuffer, yielded, error, overdue>>

\* reader.read rejects (the connection breaks): the error goes to the caller
ReadFails ==
    /\ cstate = "read"
    /\ cstate' = "threw"
    /\ error' = [name |-> "read failed"]
    /\ UNCHANGED <<raw, status, rpos, chatBuffer, yielded, overdue>>

\* the duration config.timeout passes while the request is still awaited:
\* chatStream gave fetch no signal and set no timer, so nothing else happens
TimeoutElapses ==
    /\ Waiting
    /\ ~overdue
    /\ overdue' = TRUE
    /\ UNCHANGED <<raw, status, rpos, chatBuffer, yielded, cstate, error>>

DecoderNext ==
    \/ FetchFails /\ UNCHANGED <<extVars, agentVars, toolVars, sessVars>>
    \/ FetchNotOk /\ UNCHANGED <<extVars, agentVars, toolVars, sessVars>>
    \/ FetchNoBody /\ UNCHANGED <<extVars, agentVars, toolVars, sessVars>>
    \/ FetchOk /\ UNCHANGED <<extVars, agentVars, toolVars, sessVars>>
    \/ Read /\ UNCHANGED <<extVars, agentVars, toolVars, sessVars>>
    \/ ReadDone /\ UNCHANGED <<extVars, agentVars, toolVars, sessVars>>
    \/ ReadFails /\ UNCHANGED <<extVars, agentVars, toolVars, sessVars>>

DecoderStart ==
    DecoderInit /\ AgentInit /\ ExtractorIdle /\ ToolIdle /\ SessionIdle

DecoderSpec == DecoderStart /\ [][DecoderNext]_vars

\* the decoder with the passing of the configured timeout made visible
DecoderTimedNext ==
    \/ DecoderNext
    \/ TimeoutElapses /\ UNCHANGED <<extVars, agentVars, toolVars, sessVars>>

DecoderTimedSpec == DecoderStart /\ [][DecoderTimedNext]_vars


----------------------------------------------------------------------------
(* Claims C11..C14: the decoder under arbitrary fragmentation              *)
(* What a body holds is read off its text as a whole, by the positions of  *)
(* its newlines, and compared with what the fragments made chatStream do.  *)

\* the lines of t that have their terminating newline, in order
CompleteLines(t) ==
    LET nls == {i \in 1..Len(t) : t[i] = NL}
        nth(k) == CHOOSE i \in nls : Cardinality({j \in nls : j < i}) = k - 1
    IN  [k \in 1..Cardinality(nls) |->
            SubSeq(t, IF k = 1 THEN 1 ELSE nth(k - 1) + 1, nth(k) - 1)]

IsDataLine(l) == Len(l) >= 6 /\ \A k \in 1..6 : l[k] = DataPrefix[k]

Payload(l) == [k \in 1..(Len(l) - 6) |-> l[k + 6]]

IsSentinelLine(l) == IsDataLine(l) /\ Payload(l) = Sentinel

HasSentinel(ls) == \E k \in 1..Len(ls) : IsSentinelLine(ls[k])

\* the lines that precede the first sentinel line (all, when there is none)
BeforeSentinel(ls) ==
    LET hits == {k \in 1..Len(ls) : IsSentinelLine(ls[k])}
    IN  IF hits = {} THEN ls
        ELSE SubSeq(ls, 1, (CHOOSE k \in hits : \A j \in hits : k <= j) - 1)

\* a data line whose payload parses and holds a non-empty content
Carries(l) ==
    /\ IsDataLine(l)
    /\ ~ParseContent(Payload(l)).threw
    /\ ParseContent(Payload(l)).content # <<>>

RECURSIVE ContentsOf(_)
\* the non-empty contents of the data lines of ls, in order
ContentsOf(ls) ==
    IF ls = <<>> THEN <<>>
    ELSE (IF Carries(Head(ls)) THEN <<ParseContent(Payload(Head(ls))).content>>
          ELSE <<>>) \o ContentsOf(Tail(ls))

\* what has arrived so far
Arrived == SubSeq(raw, 1, rpos)

\* C11: whatever the fragments, chatStream has at every moment yielded
\* exactly the non-empty contents of the newline-terminated data lines that
\* have arrived and precede the sentinel, in arrival order, each once; a line
\* whose newline has not arrived has yielded nothing.
C11_ExactUnderFragmentation ==
    yielded = ContentsOf(BeforeSentinel(CompleteLines(Arrived)))

\* C11 witness: a fragment ended inside the sentinel after the delta of the
\* line before it was yielded
C11_Witness ==
    /\ raw = LineA \o <<NL>> \o DoneLine \o <<NL>>
    /\ cstate = "read"
    /\ chatBuffer = DataPrefix \o <<"[", "D", "O">>
    /\ yielded = <<<<"a">>>>

\* C12: once a complete sentinel line has arrived chatStream has returned; it
\* yielded nothing from the lines after the sentinel, and from then on it
\* reads no fragment and yields nothing.
C12_SentinelTerminates ==
    [][LET ls == CompleteLines(SubSeq(raw, 1, rpos'))
       IN  (Ok(status) /\ HasSentinel(ls))
               => /\ cstate' = "returned"
                  /\ Len(yielded') = Len(ContentsOf(BeforeSentinel(ls)))
                  /\ cstate = "returned" => (rpos' = rpos /\ yielded' = yielded)]_vars

\* C12 witness: the sentinel and a data line after it arrived in one fragment,
\* and chatStream returned without a delta
C12_Witness ==
    /\ raw = DoneLine \o <<NL>> \o LineA \o <<NL>>
    /\ rpos = Len(raw)
    /\ cstate = "returned"
    /\ yielded = <<>>

\* the number of lines among the first j of ls that carry a content
Rank(ls, j) == Cardinality({k \in 1..j : Carries(ls[k])})

\* C13: a data line whose payload is no JSON, or holds no content, yields
\* nothing and neither ends nor fails the stream: every line after it that
\* carries a content, before the sentinel, has its delta yielded at its place.
C13_BadLineSkipped ==
    LET ls == BeforeSentinel(CompleteLines(Arrived))
    IN  \A k \in 1..Len(ls) :
            (IsDataLine(ls[k]) /\ ~Carries(ls[k]))
                => /\ error.name \in {"none", "read failed"}
                   /\ (cstate = "returned" =>
                          (rpos = Len(raw) \/ HasSentinel(CompleteLines(Arrived))))
                   /\ \A j \in (k + 1)..Len(ls) :
                          Carries(ls[j])
                              => /\ Len(yielded) >= Rank(ls, j)
                                 /\ yielded[Rank(ls, j)] =
                                        ParseContent(Payload(ls[j])).content

\* C13 witness: after a payload that is no JSON and a record without content,
\* the delta of the third line was yielded
C13_Witness ==
    /\ raw = BadLine \o <<NL>> \o NoContentLine \o <<NL>> \o LineB \o <<NL>>
    /\ cstate = "returned"
    /\ yielded = <<<<"b">>>>

\* C14: a response whose status is not a success makes chatStream yield
\* nothing and fail with an error that carries the status and the body; no
\* character of the body is read as a frame.
C14_NonSuccessFails ==
    (status # NoResponse /\ ~(200 <= status /\ status <= 299) /\ cstate # "fetch")
        => /\ cstate = "threw"
           /\ error = [name |-> "API Error", status |-> status, body |-> raw]
           /\ yielded = <<>>
           /\ rpos = 0
           /\ chatBuffer = <<>>

\* C14 witness: a 404 whose body is made of data lines has been thrown
C14_Witness ==
    /\ status = 404
    /\ raw = LineA \o <<NL>> \o DoneLine \o <<NL>>
    /\ cstate = "threw"
    /\ error.name = "API Error"


----------------------------------------------------------------------------
(* Claims C15..C18: the turn driven by sendMessage                         *)

\* C15: each delta the loop receives goes once to the display and once to
\* CodeExtractor.process, in the order received: a step that receives a chunk
\* appends that chunk to what is displayed and moves the extractor by process
\* of that chunk, no other step writes, and the display is always the text
\* received so far.
C15_DeltasForwardedInOrder ==
    [][/\ pos' > pos =>
            LET chunk == SubSeq(text, pos + 1, pos')
                r == process(Ext, pendingFiles, chunk)
            IN  /\ display' = display \o chunk
                /\ [buffer |-> buffer', inBlock |-> inBlock',
                    filename |-> filename', code |-> code'] = r.ext
                /\ pendingFiles' = r.pendingFiles
       /\ pos' = pos => display' = display
       /\ display' = SubSeq(text, 1, pos')]_vars

\* C15 witness: the three chunks of the scenario have been received and shown
C15_Witness ==
    /\ text = ScenarioText /\ plan = ScenarioPlan
    /\ phase = "stream"
    /\ pos = Len(text)
    /\ display = ScenarioText

RECURSIVE ChatOf(_, _)
\* the text of t from index from on that lies outside its blocks (a block
\* runs from its header to its closing fence, or to the end when left open)
ChatOf(t, from) ==
    LET h == HeaderFrom(t, from)
    IN  IF ~h.found THEN SubSeq(t, from, Len(t))
        ELSE LET f == FenceFrom(t, h.n + 1)
             IN  SubSeq(t, from, h.i - 1)
                     \o (IF f = 0 THEN <<>> ELSE ChatOf(t, f + 3))

\* C16: the response is partitioned between the display and the blocks: when
\* the turn is done the display holds the text outside the blocks, the fence
\* markup and the block contents having gone into the instructions; in the
\* three-chunk scenario that is "Sure, here:" and "Done." without the block.
C16_DisplayAndBlocksPartition ==
    phase = "done" => display = ChatOf(text, 1)

\* C17: processPending starts only after the stream has been drained and
\* flush has returned: the step that presents the files starts with all the
\* text received and the extractor reset, and presents exactly the
\* instructions the list held then.
C17_ApplyOnlyAfterFlush ==
    [][(applied' # applied \/ phase' = "applied")
           => /\ phase = "done"
              /\ pos = Len(text)
              /\ ~inBlock /\ buffer = <<>> /\ code = <<>>
              /\ [k \in 1..Len(applied') |-> applied'[k].file] = pendingFiles]_vars

\* C17 witness: two instructions were presented after the flush, the first
\* skipped and the second saved
C17_Witness ==
    /\ phase = "applied"
    /\ Len(applied) = 2
    /\ applied[1].did = "skip"
    /\ applied[2].did = "save"
    /\ pendingFiles = <<>>

\* C18: when the stream fails while a block is open, the block's buffered
\* state is discarded: the flush of the failed turn adds no instruction.
C18_FailureDiscardsOpenBlock ==
    phase = "failed" => flushEmitted = <<>>


----------------------------------------------------------------------------
(* Claims C19, C20: timeout and abort                                      *)

\* C19: the configured timeout bounds the whole exchange: once it has passed
\* with the request still awaited (no byte yet, or the delivery stalled), the
\* exchange is over: no delta is yielded any more and the stream does not
\* complete as if it had been in time.
C19_TimeoutBoundsExchange ==
    [][(overdue /\ cstate \in {"fetch", "read"})
           => (yielded' = yielded /\ cstate' # "returned")]_vars

\* C20: after abort() was called during a streaming exchange, sendStream
\* yields no further delta: the stream can only come to its end.
C20_AbortEndsStream ==
    [][(call.kind = "stream" /\ call.aborted /\ call'.kind = "stream")
           => call'.deltas = call.deltas]_vars

----------------------------------------------------------------------------
(* Claims C21..C28: the pending list and the extractor, step by step       *)

\* the files of what processPending presented, in order
Presented(a) == [k \in 1..Len(a) |-> a[k].file]

\* C21: every instruction put on pendingFiles is handed to processPending
\* exactly once: the step that presents the files presents the whole list, in
\* order, and empties it, and sendMessage never settles (by returning or by
\* rethrowing) with an instruction still on the list.
C21_PendingConsumedOnce ==
    [][/\ (phase = "done" /\ phase' = "applied")
              => (Presented(applied') = pendingFiles /\ pendingFiles' = <<>>)
       /\ phase' \in {"settled", "failed"} => pendingFiles' = <<>>]_vars

\* the first triple backtick after the newline of the header h: the index of
\* its first backtick, 0 when there is none
FirstFence(h) == FenceFrom(text, h.n + 1)

\* the instruction of the block with header h and closing fence at f
BlockOf(h, f) ==
    [filename |-> Trim(SubSeq(text, h.c + 1, h.n - 1)),
     content |-> Trim(SubSeq(text, h.n + 1, f - 1))]

\* the extractor is inside the first block of the response, h its header
InFirstBlock(h) ==
    /\ inBlock
    /\ pendingFiles = <<>>
    /\ h.found
    /\ filename = Trim(SubSeq(text, h.c + 1, h.n - 1))

\* C23: a closing fence split across a chunk boundary (one or two of its
\* backticks end one chunk, the rest arrives later) is still detected: the
\* chunk that completes it emits the block, whose content is the text between
\* the header's newline and the fence, trimmed, with none of the fence's
\* backticks in it.
C23_SplitFenceDetected ==
    [][(pos' > pos /\ pos >= 1 /\ text[pos] = BT /\ inBlock /\ pendingFiles = <<>>)
          => LET h == FirstHeader
                 f == FirstFence(h)
             IN  (InFirstBlock(h) /\ f # 0 /\ pos \in {f, f + 1} /\ pos' >= f + 2)
                    => /\ ~inBlock'
                       /\ pendingFiles' = <<BlockOf(h, f)>>]_vars

\* C23 witness: the one-block response whose second chunk ends with two
\* backticks has been closed by the third chunk, the single backtick
C23_Witness ==
    /\ text = BareBlockText /\ plan = SplitFencePlan
    /\ pos = 24
    /\ phase = "stream"
    /\ ~inBlock
    /\ pendingFiles = <<[filename |-> <<"a">>, content |-> Trim(Long)]>>

\* what follows the leftmost opening header held in b
AfterHeader(b) == SliceFrom(b, IndexOf(b, Match(b).whole) + Len(Match(b).whole))

\* C24: when a closing fence and the complete opening header of a following
\* block arrive in the same chunk, the following block is not missed even if
\* no further chunk arrives: the stream ending with that header (and some
\* content after it) still waiting in the buffer behind the close, the flush
\* leaves an instruction with that header's path on the list.
C24_BlockAfterCloseExtracted ==
    [][(phase = "stream" /\ phase' = "done" /\ ~inBlock
           /\ Match(buffer).found /\ Trim(AfterHeader(buffer)) # <<>>)
          => \E k \in 1..Len(pendingFiles') :
                pendingFiles'[k].filename = Trim(Match(buffer).path)]_vars

\* C25: an instruction is added to the list only by process finding a closing
\* fence while InBlock or by flush while InBlock, one at a time and at the end
\* of the list; process and flush while Scanning add nothing, and none of them
\* changes an instruction that is already on the list.
C25_EmittedOnlyFromInBlock ==
    [][phase = "stream" =>
          \/ pendingFiles' = pendingFiles
          \/ /\ inBlock
             /\ Len(pendingFiles') = Len(pendingFiles) + 1
             /\ SubSeq(pendingFiles', 1, Len(pendingFiles)) = pendingFiles
             /\ pendingFiles'[Len(pendingFiles')].filename = filename
             /\ \/ pos' > pos /\ IndexOf(buffer \o SubSeq(text, pos + 1, pos'), Fence) # -1
                \/ phase' \in {"done", "failed"}]_vars

\* C25 witness: a two-block response has ended with the first block emitted
\* by its close and the second by the flush
C25_Witness ==
    /\ phase = "done"
    /\ Len(pendingFiles) = 2
    /\ flushEmitted = <<pendingFiles[2]>>

\* the most the carry-buffer is to hold in the state the extractor is in
CarryBound(blk) == IF blk THEN BlockKeep ELSE ScanKeep

\* C26 as stated: after every process call the carry-buffer holds at most 100
\* characters when Scanning and at most 10 when InBlock, the states right
\* after an opening match or a close included.
C26_CarryAlwaysBounded ==
    phase = "stream" => Len(buffer) <= CarryBound(inBlock)

\* C26 amended: the bound holds after every process call that neither matched
\* an opening header nor found a closing fence.
C26_CarryBoundedBetweenEvents ==
    [][(pos' > pos /\ inBlock' = inBlock)
          => Len(buffer') <= CarryBound(inBlock')]_vars

\* C26 witness: more chat text than the scanning buffer keeps has been
\* processed without a match, and the buffer holds exactly its 100 characters
C26_Witness ==
    /\ phase = "stream"
    /\ ~inBlock
    /\ pendingFiles = <<>>
    /\ pos > ScanKeep
    /\ Len(buffer) = ScanKeep

\* C27: the opening pattern takes a tag of one or more non-blank characters
\* (c++, objective-c), so every buffer that holds such a pattern makes the
\* extractor enter InBlock: after a process call while no block has been closed
\* yet, the extractor is not left Scanning with a complete pattern in its
\* buffer.
C27_AnyTagOpensBlock ==
    (phase = "stream" /\ ~inBlock /\ pendingFiles = <<>>) => ~HasSpecHeader(buffer)

\* C28: blocks do not nest. The first triple backtick after the header closes
\* the block, also when it was meant to open a fenced snippet inside the
\* content: the step that emits the first block emits the text before that
\* triple backtick, trimmed, and leaves the extractor Scanning with what
\* followed it in the buffer, as chat text.
C28_FirstFenceCloses ==
    [][(pos' > pos /\ pendingFiles' # <<>> /\ inBlock /\ pendingFiles = <<>>)
          => LET h == FirstHeader
                 f == FirstFence(h)
             IN  InFirstBlock(h)
                    => /\ f # 0
                       /\ pendingFiles' = <<BlockOf(h, f)>>
                       /\ ~inBlock'
                       /\ buffer' = SubSeq(text, f + 3, pos')]_vars

\* C28 witness: the block with a fenced snippet inside was closed at the
\* snippet's opening backticks; its content is "a", and the snippet with its
\* own closing fence is chat text in the buffer
C28_Witness ==
    /\ text = NestedFenceText
    /\ pos = Len(text)
    /\ phase = "stream"
    /\ ~inBlock
    /\ pendingFiles = <<[filename |-> <<"a">>, content |-> <<"a">>]>>
    /\ buffer = <<"j", "s", NL, "b", NL>> \o Fence

----------------------------------------------------------------------------
(* Claim C29: a streaming turn that fails after text was streamed          *)

\* C29 as stated: when a streaming turn fails after partial text was
\* streamed, the partial text is committed as an assistant message and the
\* user turn is kept in the Conversation.
C29_PartialTextCommitted ==
    (JustEnded("sendStream", "failed") /\ Len(last.deltas) >= 1)
        => /\ Len(conversationHistory) = Len(last.before) + 2
           /\ conversationHistory[Len(last.before) + 1] = last.userMsg
           /\ conversationHistory[Len(last.before) + 2].role = "assistant"
           /\ conversationHistory[Len(last.before) + 2].content = Concat(last.deltas)

\* C29 amended: when a streaming turn fails after partial text was streamed,
\* the partial text is dropped and the user turn is removed: the Conversation
\* ends with the message it ended with before the turn, and holds neither the
\* turn's user message nor an assistant message made of the streamed text.
C29_PartialTextRolledBack ==
    (JustEnded("sendStream", "failed") /\ Len(last.deltas) >= 1)
        => /\ Len(conversationHistory) = Len(last.before)
           /\ conversationHistory[Len(conversationHistory)] = last.before[Len(last.before)]
           /\ \A k \in 1..Len(conversationHistory) :
                 /\ conversationHistory[k] # last.userMsg
                 /\ ~(/\ conversationHistory[k].role = "assistant"
                      /\ conversationHistory[k].id = last.userMsg.id)

\* C29 witness: the first turn of a session failed after the deltas "a", "b"
\* had been streamed
C29_Witness ==
    /\ JustEnded("sendStream", "failed")
    /\ last.deltas = <<"a", "b">>
    /\ Len(last.before) = 1
    /\ call.kind = "idle"

----------------------------------------------------------------------------
(* runCommand (core/tools.ts)                                              *)
(* One call: spawn, the handlers of the child's data, close and error      *)
(* events, and the 30 s timer, which is never cleared. Every handler calls *)
(* resolve; a promise keeps the value of the first call.                   *)

\* most data events per stream of the child
MaxData == 2

\* the exit code of a child that was ended by a signal (null in the source)
NullCode == -1
ExitCodes == {0, 1, NullCode}

NoOutput == <<"(no output)">>
Undefined == <<"undefined">>
TimedOut == <<"Command timed out (30s)">>
FailedToRun == <<"Failed to run command">>

ToolResult(success, output, err) ==
    [state |-> "resolved", success |-> success, output |-> output, error |-> err]

\* (a promise that takes the value of the latest resolve call)
ResolveLast(p, r) == r

\* resolve(r) on the promise p: the first call settles it, later calls do nothing
Resolve(p, r) == IF p = NoResult THEN r ELSE p

\* the record of the close handler: code === 0, stdout || "(no output)",
\* stderr || undefined
CloseResult(exitCode, out, err) ==
    ToolResult(exitCode = 0,
               IF out = <<>> THEN NoOutput ELSE out,
               IF err = <<>> THEN Undefined ELSE err)

\* the record of the error handler and of the catch clause
ErrorResult == ToolResult(FALSE, <<>>, FailedToRun)

\* the record of the timer callback
TimeoutResult(out) == ToolResult(FALSE, out, TimedOut)

Event(kind, exitCode) ==
    [kind |-> kind, code |-> exitCode, stdout |-> stdout, stderr |-> stderr]

RunCommandInit ==
    /\ proc = "none"
    /\ stdout = <<>>
    /\ stderr = <<>>
    /\ timer = "unset"
    /\ settled = NoResult
    /\ events = <<>>
    /\ kills = 0

\* spawn returns the child: the handlers are registered and the timer is set
Spawn ==
    /\ proc = "none"
    /\ proc' = "running"
    /\ timer' = "pending"
    /\ UNCHANGED <<stdout, stderr, settled, events, kills>>

\* spawn throws: the catch clause resolves with a failure record
SpawnThrows ==
    /\ proc = "none"
    /\ proc' = "threw"
    /\ settled' = Resolve(settled, ErrorResult)
    /\ events' = Append(events, Event("throw", NullCode))
    /\ UNCHANGED <<stdout, stderr, timer, kills>>

\* proc.stdout.on("data"): stdout += data.toString()
StdoutData ==
    /\ proc = "running"
    /\ Len(stdout) < MaxData
    /\ stdout' = Append(stdout, "o")
    /\ UNCHANGED <<proc, stderr, timer, settled, events, kills>>

\* proc.stderr.on("data"): stderr += data.toString()
StderrData ==
    /\ proc = "running"
    /\ Len(stderr) < MaxData
    /\ stderr' = Append(stderr, "e")
    /\ UNCHANGED <<proc, stdout, timer, settled, events, kills>>

\* proc.on("close")
Close ==
    /\ proc = "running"
    /\ \E exitCode \in ExitCodes :
          /\ settled' = Resolve(settled, CloseResult(exitCode, stdout, stderr))
          /\ events' = Append(events, Event("close", exitCode))
    /\ proc' = "closed"
    /\ UNCHANGED <<stdout, stderr, timer, kills>>

\* proc.on("error"): the child could not be spawned or signalled; at most once
ProcError ==
    /\ proc = "running"
    /\ \A k \in 1..Len(events) : events[k].kind # "error"
    /\ settled' = Resolve(settled, ErrorResult)
    /\ events' = Append(events, Event("error", NullCode))
    /\ UNCHANGED <<proc, stdout, stderr, timer, kills>>

\* the callback of setTimeout(..., 30000): proc.kill(), then resolve
TimerFires ==
    /\ timer = "pending"
    /\ timer' = "fired"
    /\ kills' = kills + 1
    /\ settled' = Resolve(settled, TimeoutResult(stdout))
    /\ events' = Append(events, Event("timer", NullCode))
    /\ UNCHANGED <<proc, stdout, stderr>>

\* the synchronous part of the call: spawn returns or throws
RunCommandCalled ==
    (Spawn \/ SpawnThrows) /\ UNCHANGED <<extVars, agentVars, decVars, sessVars>>

\* the timer callback as a step of the whole system
TimerElapsed == TimerFires /\ UNCHANGED <<extVars, agentVars, decVars, sessVars>>

RunCommandNext ==
    \/ Spawn /\ UNCHANGED <<extVars, agentVars, decVars, sessVars>>
    \/ SpawnThrows /\ UNCHANGED <<extVars, agentVars, decVars, sessVars>>
    \/ StdoutData /\ UNCHANGED <<extVars, agentVars, decVars, sessVars>>
    \/ StderrData /\ UNCHANGED <<extVars, agentVars, decVars, sessVars>>
    \/ Close /\ UNCHANGED <<extVars, agentVars, decVars, sessVars>>
    \/ ProcError /\ UNCHANGED <<extVars, agentVars, decVars, sessVars>>
    \/ TimerFires /\ UNCHANGED <<extVars, agentVars, decVars, sessVars>>

RunCommandStart ==
    RunCommandInit /\ ExtractorIdle /\ AgentInit /\ DecoderIdle /\ SessionIdle

\* The body of runCommand runs to its end once called, and a timer that was
\* set fires: the event loop runs the callback of every pending timer.
RunCommandSpec ==
    /\ RunCommandStart
    /\ [][RunCommandNext]_vars
    /\ WF_vars(RunCommandCalled)
    /\ WF_vars(TimerElapsed)

----------------------------------------------------------------------------
(* Claim C22: runCommand settles once, with the record of the first event  *)

\* the promise holds the record the claim assigns to the first event
SettledByFirst ==
    IF events = <<>> THEN settled = NoResult
    ELSE LET first == events[1]
         IN  /\ settled.state = "resolved"
             /\ settled.success = (first.kind = "close" /\ first.code = 0)
             /\ first.kind = "close" =>
                   /\ settled.output =
                         (IF first.stdout = <<>> THEN NoOutput ELSE first.stdout)
                   /\ settled.error =
                         (IF first.stderr = <<>> THEN Undefined ELSE first.stderr)
             /\ first.kind = "timer" =>
                   /\ settled.output = first.stdout
                   /\ settled.error = TimedOut
             /\ first.kind \in {"error", "throw"} =>
                   /\ settled.output = <<>>
                   /\ settled.error = FailedToRun

\* C22: runCommand always resolves and never rejects. In every order of the
\* close event, the error event and the 30 s timer the promise is settled by
\* the first of them and keeps that ToolResult whatever follows: success is
\* true only when a close with exit code 0 came first, a timer that fires
\* first gives the time-out failure; and every call is settled in the end.
C22_SettledOnceByFirstEvent ==
    /\ []SettledByFirst
    /\ <>(settled # NoResult)

\* C22 witness: the child closed with exit code 0 after writing output, the
\* timer fired afterwards, and the promise still holds the success record
C22_Witness ==
    /\ Len(events) = 2
    /\ events[1].kind = "close" /\ events[1].code = 0
    /\ events[2].kind = "timer"
    /\ settled = ToolResult(TRUE, <<"o">>, Undefined)

----------------------------------------------------------------------------
(* The prompt loop of main, with /retry and /clear of handleCmd            *)
(* (utils/config.ts), in a configured session: initAgent has run. A line   *)
(* of the terminal goes to the question that is waiting, the prompt's or   *)
(* askSave's; a line that arrives while none is waiting has no listener.   *)
(* What sendMessage does with the stream is in ExtractorSpec, what the     *)
(* agent does with a message in AgentSpec: here an exchange starts and     *)
(* settles.                                                                *)

\* most lines the terminal delivers in one run, and most files of one turn
\* that askSave asks about
MaxInputs == 3
MaxAsked == 1

Messages == {"u", "v"}

\* fullMessage of sendMessage: the first message of a conversation is sent
\* with the project structure and the instructions before it
FullMessage(first, message) ==
    IF first THEN <<"Project structure", "User request", message>>
    ELSE <<message>>

\* the follow-up of a turn that wrote files
StructureUpdate == <<"[Updated]">>

\* (a loop that asks for the next line before the call it started has settled)
PromptAtOnce(t) == TRUE

\* prompt() is called again at the end of the question's callback, after the
\* awaited handleCmd or sendMessage of the line has settled
PromptAgain(t) == t.at = "idle"

SessionInit ==
    /\ armed = TRUE
    /\ task = NoTask
    /\ outstanding = 0
    /\ lastUserMessage = ""
    /\ isFirstMessage = TRUE
    /\ requests = <<>>
    /\ consumed = 0
    /\ dropped = 0
    /\ outcome = "none"
    /\ carried = <<>>

\* the question's callback is called with the next line
Takes ==
    /\ armed
    /\ consumed < MaxInputs
    /\ consumed' = consumed + 1

\* sendMessage(message) up to its first await: agent.sendStream is started
Submit(message, via) ==
    /\ requests' = Append(requests, FullMessage(isFirstMessage, message))
    /\ isFirstMessage' = FALSE
    /\ outstanding' = outstanding + 1
    /\ task' = [at |-> "stream", via |-> via, left |-> 0]
    /\ armed' = PromptAgain(task')

\* a blank line: prompt() again
EmptyLine ==
    /\ Takes
    /\ armed' = PromptAgain(task)
    /\ UNCHANGED <<task, outstanding, lastUserMessage, isFirstMessage, requests,
                   dropped, outcome>>

\* /clear: agent.clearHistory(), isFirstMessage = true
ClearCommand ==
    /\ Takes
    /\ isFirstMessage' = TRUE
    /\ armed' = PromptAgain(task)
    /\ UNCHANGED <<task, outstanding, lastUserMessage, requests, dropped, outcome>>

\* /retry with no message to retry
RetryNothing ==
    /\ Takes
    /\ lastUserMessage = ""
    /\ armed' = PromptAgain(task)
    /\ UNCHANGED <<task, outstanding, lastUserMessage, isFirstMessage, requests,
                   dropped, outcome>>

\* /retry: await sendMessage(lastUserMessage, rl)
RetryCommand ==
    /\ Takes
    /\ lastUserMessage # ""
    /\ Submit(lastUserMessage, "retry")
    /\ UNCHANGED <<lastUserMessage, dropped, outcome>>

\* any other line: lastUserMessage = trimmed; await sendMessage(trimmed, rl)
MessageLine ==
    /\ Takes
    /\ \E m \in Messages :
          /\ lastUserMessage' = m
          /\ Submit(m, "prompt")
    /\ UNCHANGED <<dropped, outcome>>

\* the stream threw: sendMessage rethrows, the caller prints the error
StreamThrows ==
    /\ task.at = "stream"
    /\ outstanding' = outstanding - 1
    /\ task' = NoTask
    /\ armed' = PromptAgain(task')
    /\ outcome' = "threw"
    /\ UNCHANGED <<lastUserMessage, isFirstMessage, requests, consumed, dropped>>

\* the stream ended and left no file: sendMessage returns
StreamReturns ==
    /\ task.at = "stream"
    /\ outstanding' = outstanding - 1
    /\ task' = NoTask
    /\ armed' = PromptAgain(task')
    /\ outcome' = "returned"
    /\ UNCHANGED <<lastUserMessage, isFirstMessage, requests, consumed, dropped>>

\* processPending is through with the files: agent.send("[Updated]...") starts
StartUpdate(out) ==
    /\ requests' = Append(requests, StructureUpdate)
    /\ outstanding' = out + 1
    /\ task' = [task EXCEPT !.at = "update", !.left = 0]

\* the stream ended and left files: processPending asks about left of them
\* (none when the files are accepted automatically)
StreamLeavesFiles ==
    /\ task.at = "stream"
    /\ \E left \in 0..MaxAsked :
          IF left = 0
          THEN StartUpdate(outstanding - 1)
          ELSE /\ outstanding' = outstanding - 1
               /\ task' = [task EXCEPT !.at = "confirm", !.left = left]
               /\ requests' = requests
    /\ armed' = PromptAgain(task')
    /\ UNCHANGED <<lastUserMessage, isFirstMessage, consumed, dropped, outcome>>

\* the line that answers askSave's question
Answer ==
    /\ task.at = "confirm"
    /\ consumed < MaxInputs
    /\ consumed' = consumed + 1
    /\ IF task.left = 1
       THEN StartUpdate(outstanding)
       ELSE /\ task' = [task EXCEPT !.left = @ - 1]
            /\ UNCHANGED <<requests, outstanding>>
    /\ armed' = PromptAgain(task')
    /\ UNCHANGED <<lastUserMessage, isFirstMessage, dropped, outcome>>

\* agent.send has settled, its error swallowed: sendMessage returns
UpdateSettles ==
    /\ task.at = "update"
    /\ outstanding' = outstanding - 1
    /\ task' = NoTask
    /\ armed' = PromptAgain(task')
    /\ outcome' = "returned"
    /\ UNCHANGED <<lastUserMessage, isFirstMessage, requests, consumed, dropped>>

\* a line arrives while no question is waiting: readline emits 'line', which
\* nothing listens to
LineDropped ==
    /\ ~armed
    /\ task.at \in {"stream", "update"}
    /\ consumed < MaxInputs
    /\ consumed' = consumed + 1
    /\ dropped' = dropped + 1
    /\ UNCHANGED <<armed, task, outstanding, lastUserMessage, isFirstMessage,
                   requests, outcome>>

SessionNext ==
    \/ EmptyLine /\ UNCHANGED <<extVars, agentVars, decVars, toolVars, carried>>
    \/ ClearCommand /\ UNCHANGED <<extVars, agentVars, decVars, toolVars, carried>>
    \/ RetryNothing /\ UNCHANGED <<extVars, agentVars, decVars, toolVars, carried>>
    \/ RetryCommand /\ UNCHANGED <<extVars, agentVars, decVars, toolVars, carried>>
    \/ MessageLine /\ UNCHANGED <<extVars, agentVars, decVars, toolVars, carried>>
    \/ StreamThrows /\ UNCHANGED <<extVars, agentVars, decVars, toolVars, carried>>
    \/ StreamReturns /\ UNCHANGED <<extVars, agentVars, decVars, toolVars, carried>>
    \/ StreamLeavesFiles /\ UNCHANGED <<extVars, agentVars, decVars, toolVars, carried>>
    \/ Answer /\ UNCHANGED <<extVars, agentVars, decVars, toolVars, carried>>
    \/ UpdateSettles /\ UNCHANGED <<extVars, agentVars, decVars, toolVars, carried>>
    \/ LineDropped /\ UNCHANGED <<extVars, agentVars, decVars, toolVars, carried>>

SessionStart ==
    SessionInit /\ ExtractorIdle /\ AgentInit /\ DecoderIdle /\ ToolIdle

SessionSpec == SessionStart /\ [][SessionNext]_vars

----------------------------------------------------------------------------
(* Claim C30: one exchange at a time                                       *)

\* C30: at most one remote exchange is outstanding per session. While a
\* sendMessage (the stream, the file confirmation, the follow-up agent.send)
\* has not settled, the prompt's question is not waiting, so neither the next
\* message nor /retry is taken; an exchange starts only when none is
\* outstanding.
C30_OneExchangeAtATime ==
    /\ outstanding <= 1
    /\ armed => (task = NoTask /\ outstanding = 0)
    /\ task.at \in {"stream", "update"} => outstanding = 1

\* C30 witness: a retry is streaming, and a line typed meanwhile was not taken
C30_Witness ==
    /\ task.at = "stream"
    /\ task.via = "retry"
    /\ outstanding = 1
    /\ dropped = 1
    /\ ~armed

----------------------------------------------------------------------------
(* Claim C35: the timer of runCommand after the result is delivered        *)

\* C35: once runCommand has resolved because the child closed or errored,
\* the 30 s timer has no further effect: it is not left pending after the
\* result is delivered, and no proc.kill() is issued from then on, so none
\* reaches a child that has already closed.
C35_TimerInertAfterResult ==
    [][(settled # NoResult /\ events[1].kind \in {"close", "error"})
          => (timer # "pending" /\ kills' = kills)]_vars

----------------------------------------------------------------------------
(* Claim C34: the last line of a stream that closes without a sentinel     *)

\* every line of t, the last one also when the text ends without a newline
ReceivedLines(t) ==
    IF t # <<>> /\ t[Len(t)] # NL THEN CompleteLines(t \o <<NL>>)
    ELSE CompleteLines(t)

\* C34: no delta is lost at stream close. When the stream closes without a
\* sentinel, chatStream has yielded the delta of every data line received,
\* the final line included when the close came before its newline.
C34_NoDeltaLostAtClose ==
    (cstate = "returned" /\ Ok(status) /\ rpos = Len(raw)
        /\ ~HasSentinel(ReceivedLines(raw)))
        => yielded = ContentsOf(ReceivedLines(raw))

----------------------------------------------------------------------------
(* Claim C33: what the extractor holds of an open block                    *)

\* n is the newline of an opening header of the text with the path the
\* extractor holds
HeaderEndsAt(n) ==
    \E i \in {k \in 1..n : TicksAt(text, k)} :
        \E c \in {k \in (i + 4)..(n - 2) : text[k] = ":"} :
            /\ HeaderSpan(text, i, c, n)
            /\ filename = Trim(SubSeq(text, c + 1, n - 1))

\* C33: while the extractor is InBlock, after every process call that did
\* not close the block, the accumulated code followed by the carry-buffer is
\* exactly the text received since the newline of the block's header: moving
\* text from the buffer to the code loses, repeats and reorders nothing.
C33_CodeAndBufferAreBlockText ==
    (phase = "stream" /\ inBlock)
        => \E n \in {k \in 1..pos : text[k] = NL} :
              /\ code \o buffer = SubSeq(text, n + 1, pos)
              /\ HeaderEndsAt(n)

\* C33 witness: of the 15 characters received since the header, 5 have been
\* moved to the code and 10 are kept in the buffer
C33_Witness ==
    /\ text = BareBlockText /\ plan = SplitFencePlan
    /\ pos = 23
    /\ inBlock
    /\ Len(code) = 5
    /\ Len(buffer) = BlockKeep
    /\ code \o buffer = SubSeq(text, 9, 23)

----------------------------------------------------------------------------
(* Claim C31: what /retry submits after a failed turn                      *)

\* C31: after a failed turn, /retry re-submits the same user text: the
\* message it hands to the agent has the content of the message of the
\* failed attempt, also when that attempt was the first message of the
\* session, sent with the project structure before it.
C31_RetrySubmitsSameText ==
    [][(armed /\ outcome = "threw" /\ task'.at = "stream" /\ task'.via = "retry")
          => requests'[Len(requests')] = requests[Len(requests)]]_vars

----------------------------------------------------------------------------
(* The turns of one session: sendMessage called again after it settled     *)
(* (utils/config.ts). Each call makes a new CodeExtractor; pendingFiles and *)
(* autoAcceptAll belong to the module and are what the turn before left.    *)

\* most instructions on the list when a further turn begins
MaxCarried == 1

\* the responses of a turn that follows another: chat only, and one block
FollowingResponses ==
    {[text |-> <<"o", "k">>, plan |-> {}],
     [text |-> BareBlockText, plan |-> SplitFencePlan]}

\* the prompt takes the next message after sendMessage returned or rethrew:
\* sendMessage starts again, with a new extractor
NextTurn ==
    /\ phase \in {"failed", "settled"}
    /\ Len(pendingFiles) <= MaxCarried
    /\ \E r \in FollowingResponses : text' = r.text /\ plan' = r.plan
    /\ pos' = 0
    /\ phase' = "stream"
    /\ buffer' = <<>>
    /\ inBlock' = FALSE
    /\ filename' = <<>>
    /\ code' = <<>>
    /\ display' = <<>>
    /\ flushEmitted' = <<>>
    /\ applied' = <<>>
    /\ carried' = pendingFiles
    /\ UNCHANGED <<pendingFiles, autoAcceptAll>>
    /\ UNCHANGED <<armed, task, outstanding, lastUserMessage, isFirstMessage,
                   requests, consumed, dropped, outcome>>

TurnsNext ==
    \/ ExtractorNext
    \/ NextTurn /\ UNCHANGED <<agentVars, decVars, toolVars>>

TurnsSpec == ExtractorStart /\ [][TurnsNext]_vars

----------------------------------------------------------------------------
(* Claim C32: the file instructions of one turn                            *)

\* C32: the instructions handed to processPending in a turn are exactly
\* those the turn's extractor emitted: what an earlier turn left on the list
\* is not presented, and a turn whose extractor emitted nothing does not
\* start the confirmation workflow.
C32_TurnIsolation ==
    [][(phase = "done" /\ phase' = "applied")
          => /\ Len(pendingFiles) > Len(carried)
             /\ Presented(applied') =
                   SubSeq(pendingFiles, Len(carried) + 1, Len(pendingFiles))]_vars

====
